---- MODULE Spec2Model ----
(***************************************************************************)
(* Model of project2.py: the Flask deployment wrapper of the Sentiment140  *)
(* TF-IDF + logistic-regression pipeline.                                  *)
(*                                                                         *)
(*   - clean_tweet and its steps (four re.sub calls and lower()), on texts *)
(*     represented as sequences of one-character strings;                  *)
(*   - the process-wide model handle (model_pipeline) and load_model,      *)
(*     executed statement by statement by concurrently running threads;    *)
(*   - the /health and /predict handlers, and run_api.                     *)
(***************************************************************************)
EXTENDS Integers, Sequences, FiniteSets, TLC

(***************************************************************************)
(* Bounds of the model.                                                    *)
(***************************************************************************)
\* Largest number of fragments an input text of the normalizer is built of.
MaxFrags == 4

(***************************************************************************)
(* Characters and character classes of Python's re module, as used by      *)
(* clean_tweet.                                                            *)
(***************************************************************************)
LowerLetters ==
    <<"a","b","c","d","e","f","g","h","i","j","k","l","m",
      "n","o","p","q","r","s","t","u","v","w","x","y","z">>

UpperLetters ==
    <<"A","B","C","D","E","F","G","H","I","J","K","L","M",
      "N","O","P","Q","R","S","T","U","V","W","X","Y","Z">>

DigitChars == <<"0","1","2","3","4","5","6","7","8","9">>

Range(f) == { f[i] : i \in DOMAIN f }

\* \s : whitespace
IsSpace(c) == c \in {" ", "\t", "\n", "\r"}

\* [A-Za-z0-9]
IsAlnum(c) == c \in Range(LowerLetters) \cup Range(UpperLetters) \cup Range(DigitChars)

\* \w : letters, digits and the underscore
IsWord(c) == IsAlnum(c) \/ c = "_"

\* str.lower() on one character
LowerChar(c) ==
    IF c \in Range(UpperLetters)
    THEN LowerLetters[CHOOSE i \in DOMAIN UpperLetters : UpperLetters[i] = c]
    ELSE c

\* Does the literal lit occur in s at position i ?
LitAt(s, i, lit) ==
    /\ i + Len(lit) - 1 <= Len(s)
    /\ \A k \in 1..Len(lit) : s[i + k - 1] = lit[k]

\* The end of the greedy run \S+ that starts at position i: the last position
\* of the maximal stretch of non-whitespace characters from i on.
RECURSIVE NonSpaceRunEnd(_, _)
NonSpaceRunEnd(s, i) ==
    IF i + 1 <= Len(s) /\ ~IsSpace(s[i + 1]) THEN NonSpaceRunEnd(s, i + 1) ELSE i

\* The end of the greedy run \w+ that starts at position i.
RECURSIVE WordRunEnd(_, _)
WordRunEnd(s, i) ==
    IF i + 1 <= Len(s) /\ IsWord(s[i + 1]) THEN WordRunEnd(s, i + 1) ELSE i

\* The pattern  http\S+|www\.\S+  matches at position i.
UrlMatchesAt_Anchored(s, i) ==
    /\ i = 1 \/ IsSpace(s[i - 1])
    /\ \/ LitAt(s, i, <<"h","t","t","p">>)
       \/ LitAt(s, i, <<"w","w","w",".">>)
    /\ i + 4 <= Len(s)
    /\ ~IsSpace(s[i + 4])

UrlMatchesAt(s, i) ==
    /\ \/ LitAt(s, i, <<"h","t","t","p">>)
       \/ LitAt(s, i, <<"w","w","w",".">>)
    /\ i + 4 <= Len(s)
    /\ ~IsSpace(s[i + 4])

\* re.sub(r"http\S+|www\.\S+", " ", text): the scan from position i on.
RECURSIVE SubUrlsFrom(_, _)
SubUrlsFrom(s, i) ==
    IF i > Len(s) THEN <<>>
    ELSE IF UrlMatchesAt(s, i)
         THEN <<" ">> \o SubUrlsFrom(s, NonSpaceRunEnd(s, i + 4) + 1)
         ELSE <<s[i]>> \o SubUrlsFrom(s, i + 1)

SubUrls(s) == SubUrlsFrom(s, 1)

\* The pattern  @\w+  matches at position i.
MentionMatchesAt(s, i) ==
    /\ s[i] = "@"
    /\ i + 1 <= Len(s)
    /\ IsWord(s[i + 1])

\* re.sub(r"@\w+", " ", text)
RECURSIVE SubMentionsFrom(_, _)
SubMentionsFrom(s, i) ==
    IF i > Len(s) THEN <<>>
    ELSE IF MentionMatchesAt(s, i)
         THEN <<" ">> \o SubMentionsFrom(s, WordRunEnd(s, i + 1) + 1)
         ELSE <<s[i]>> \o SubMentionsFrom(s, i + 1)

SubMentions(s) == SubMentionsFrom(s, 1)

\* re.sub(r"[^A-Za-z0-9\s]", " ", text)
SubNonAlnum(s) ==
    [i \in 1..Len(s) |-> IF IsAlnum(s[i]) \/ IsSpace(s[i]) THEN s[i] ELSE " "]

\* text.lower()
LowerText(s) == [i \in 1..Len(s) |-> LowerChar(s[i])]

\* re.sub(r"\s+", " ", text): every maximal run of whitespace becomes one space.
RECURSIVE SubSpacesFrom(_, _)
SubSpacesFrom(s, i) ==
    IF i > Len(s) THEN <<>>
    ELSE IF IsSpace(s[i])
         THEN IF i > 1 /\ IsSpace(s[i - 1])
              THEN SubSpacesFrom(s, i + 1)
              ELSE <<" ">> \o SubSpacesFrom(s, i + 1)
         ELSE <<s[i]>> \o SubSpacesFrom(s, i + 1)

SubSpaces(s) == SubSpacesFrom(s, 1)

\* str.strip(): leading and trailing whitespace removed.
RECURSIVE StripLeft(_)
StripLeft(s) ==
    IF s # <<>> /\ IsSpace(Head(s)) THEN StripLeft(Tail(s)) ELSE s

RECURSIVE StripRight(_)
StripRight(s) ==
    IF s # <<>> /\ IsSpace(s[Len(s)]) THEN StripRight(SubSeq(s, 1, Len(s) - 1)) ELSE s

Strip(s) == StripLeft(StripRight(s))

(***************************************************************************)
(* JSON values, as far as the handlers look at them.                       *)
(***************************************************************************)
JStr(chars) == [kind |-> "string", chars |-> chars, num |-> 0]
JNum(n)     == [kind |-> "number", chars |-> <<>>, num |-> n]
JNull       == [kind |-> "null",   chars |-> <<>>, num |-> 0]

\* The decimal digits of a natural number.
RECURSIVE NatDigits(_)
NatDigits(n) ==
    IF n < 10 THEN <<DigitChars[n + 1]>>
    ELSE NatDigits(n \div 10) \o <<DigitChars[(n % 10) + 1]>>

\* str(v) for a string (itself), a natural number and None.
PyStr(v) ==
    CASE v.kind = "string" -> v.chars
      [] v.kind = "number" -> NatDigits(v.num)
      [] OTHER             -> <<"N","o","n","e">>

\* clean_tweet(text)
clean_tweet(v) ==
    LET text0 == IF v.kind # "string" THEN PyStr(v) ELSE v.chars
        text1 == SubUrls(text0)
        text2 == SubMentions(text1)
        text3 == SubNonAlnum(text2)
        text4 == LowerText(text3)
    IN  Strip(SubSpaces(text4))

(***************************************************************************)
(* Request bodies of POST /predict.  A body is what the client sent: text  *)
(* that is not JSON, or a JSON value.  Every body has the same fields;     *)
(* those that do not apply to its kind hold an empty value.                *)
(*   num   : a number, or a boolean as 0/1                                 *)
(*   chars : the characters of a JSON string                               *)
(*   elems : the elements of a JSON array (all strings here)               *)
(*   keys  : the keys of a JSON object                                     *)
(*   text  : the value under the key "text" of a JSON object               *)
(***************************************************************************)
Body(kind, num, chars, elems, keys, text) ==
    [kind |-> kind, num |-> num, chars |-> chars, elems |-> elems,
     keys |-> keys, text |-> text]

NoBody == Body("none", 0, <<>>, <<>>, {}, JNull)

\* The values a caller puts under "text".
TextValues ==
    { JStr(<<"N","o"," ","@","m","e","!">>),
      JNum(42) }

ObjectBodies ==
    { Body("object", 0, <<>>, <<>>, {}, JNull),
      Body("object", 0, <<>>, <<>>, {"tweet"}, JNull) }
    \cup { Body("object", 0, <<>>, <<>>, {"text"}, v) : v \in TextValues }

NonObjectBodies ==
    { Body("invalid", 0, <<>>, <<>>, {}, JNull),
      Body("null",    0, <<>>, <<>>, {}, JNull),
      Body("bool",    1, <<>>, <<>>, {}, JNull),
      Body("number",  0, <<>>, <<>>, {}, JNull),
      Body("number",  5, <<>>, <<>>, {}, JNull),
      Body("string",  0, <<"h","i">>, <<>>, {}, JNull),
      Body("string",  0, <<"a"," ","t","e","x","t">>, <<>>, {}, JNull),
      Body("array",   0, <<>>, <<>>, {}, JNull),
      Body("array",   0, <<>>, <<"text">>, {}, JNull) }

Bodies == ObjectBodies \cup NonObjectBodies

\* request.get_json(force=True) parses the body, or raises BadRequest.
JsonParses(b) == b.kind # "invalid"

\* Python truth value of the parsed payload:  not payload
Truthy(b) ==
    CASE b.kind = "null"   -> FALSE
      [] b.kind = "bool"   -> b.num # 0
      [] b.kind = "number" -> b.num # 0
      [] b.kind = "string" -> b.chars # <<>>
      [] b.kind = "array"  -> b.elems # <<>>
      [] b.kind = "object" -> b.keys # {}
      [] OTHER             -> FALSE

\* "text" in payload : "yes", "no", or "TypeError" for a payload that is no container.
ContainsText(b) ==
    CASE b.kind = "object" -> IF "text" \in b.keys THEN "yes" ELSE "no"
      [] b.kind = "array"  -> IF \E i \in DOMAIN b.elems : b.elems[i] = "text"
                              THEN "yes" ELSE "no"
      [] b.kind = "string" -> IF \E i \in DOMAIN b.chars : LitAt(b.chars, i, <<"t","e","x","t">>)
                              THEN "yes" ELSE "no"
      [] OTHER             -> "TypeError"

\* payload["text"] is defined for a JSON object only: a list or a str raises TypeError.
Subscriptable(b) == b.kind = "object"

(***************************************************************************)
(* The label table and the classifier's class codes.                       *)
(***************************************************************************)
\* The label mapper is run on the class codes -MaxCode .. MaxCode.
MaxCode == 5

LabelCodes == (0 - MaxCode)..MaxCode

\* The keys of LABEL_MAP.
NegativeCode == 0
PositiveCode == 4

\* What the (opaque) classifier may return in a served request: the two trained
\* classes, and a code the table does not know.
ClassCodes == {NegativeCode, PositiveCode, 2}

\* LABEL_MAP.get(pred_int, "unknown")
LabelOf_NoDefault(c) ==
    IF c = PositiveCode THEN "positive" ELSE "negative"

LabelOf(c) ==
    IF c = NegativeCode THEN "negative"
    ELSE IF c = PositiveCode THEN "positive"
    ELSE "unknown"

(***************************************************************************)
(* Inputs of the pure functions (the normalizer and the label mapper).     *)
(* A text is a concatenation of at most MaxFrags fragments.                *)
(***************************************************************************)
Fragments ==
    { <<"h","t","t","p">>, <<"w","w","w",".">>, <<"H","t","t","p">>,
      <<"s">>, <<"@">>, <<".">>, <<" ">>, <<"_">> }

RECURSIVE Flatten(_)
Flatten(fs) == IF fs = <<>> THEN <<>> ELSE Head(fs) \o Flatten(Tail(fs))

Inputs == { Flatten(fs) : fs \in UNION { [1..n -> Fragments] : n \in 0..MaxFrags } }

(***************************************************************************)
(* Threads.  Thread 0 is the main thread, which either runs run_api or has *)
(* only imported the module (a WSGI server or a test client then drives    *)
(* the app).  Threads 1..NumHandlers handle one request at a time each.    *)
(*                                                                         *)
(* A thread's step is a stretch of its code with at most one access to     *)
(* what the threads share (model_pipeline, the file system): load_model's  *)
(* test of line 101 goes with the caller's code before it, its return of   *)
(* line 109 with the caller's code after it.                               *)
(***************************************************************************)
\* Number of requests that can be in progress at the same time.
NumHandlers == 2

MainThread == 0
Handlers   == 1..NumHandlers
Threads    == {MainThread} \cup Handlers

\* model_pipeline = None
None == 0

VARIABLES
    model_pipeline,   \* the global handle: None, or the identity of a loaded artifact
    fileExists,       \* os.path.exists(MODEL_PATH), were it asked now
    launch,           \* "main": python project2.py --mode api ; "import": from project2 import app
    pc,               \* per thread: where it is in the code
    req,              \* per handler: the request it handles ([route, body])
    raw_text,         \* per handler: predict's raw_text
    cleaned_text,     \* per handler: predict's cleaned_text
    loaded,           \* per thread: the object joblib.load returned, before it is stored
    resp,             \* per handler: the response
    calls,            \* per thread: what the current request (or run_api) has called so far
    joblibLoads,      \* number of joblib.load calls that returned an artifact
    handleStores,     \* number of assignments to model_pipeline
    firstReturned,    \* the artifact the first successful load_model call returned
    lateCall,         \* per thread: its load_model call began after that first return
    ct_pc,            \* pure-function runs: what has been computed
    ct_input,         \*   clean_tweet's input text
    ct_url,           \*   the text after the URL step (line 70)
    ct_once,          \*   clean_tweet(input)
    ct_twice,         \*   clean_tweet(clean_tweet(input))
    lb_code,          \*   the label mapper's class code
    lb_label          \*   LABEL_MAP.get(code, "unknown")

serverVars ==
    <<model_pipeline, fileExists, launch, pc, req, raw_text, cleaned_text, loaded,
      resp, calls, joblibLoads, handleStores, firstReturned, lateCall>>

pureVars == <<ct_pc, ct_input, ct_url, ct_once, ct_twice, lb_code, lb_label>>

vars == <<serverVars, pureVars>>

NoReq   == [route |-> "none", body |-> NoBody]
NoCalls == [clean |-> 0, load_model |-> 0, exists |-> 0, joblib |-> 0,
            predict |-> 0, predictArg |-> <<>>]

\* Responses.  kind: "none" (no response yet), "health", "error" (a JSON body with
\* an "error" key), "prediction", "fault" (an unhandled exception: Flask's 500 page).
Response(kind, status, error, input_text, cleaned, prediction, label) ==
    [kind |-> kind, status |-> status, error |-> error, input_text |-> input_text,
     cleaned_text |-> cleaned, prediction |-> prediction, label |-> label]

NoResp == Response("none", 0, "", <<>>, <<>>, 0, "")

HealthResponse_Fault == Response("fault", 500, "", <<>>, <<>>, 0, "")

\* jsonify({"status": "ok"}), 200
HealthResponse == Response("health", 200, "ok", <<>>, <<>>, 0, "")

\* jsonify({"error": msg}), 400
ErrorResponse(msg) == Response("error", 400, msg, <<>>, <<>>, 0, "")

FaultResponse_AsClientError(exc) == Response("error", 400, exc, <<>>, <<>>, 0, "")

\* An exception no handler catches: Flask answers 500.
FaultResponse(exc) == Response("fault", 500, exc, <<>>, <<>>, 0, "")

\* The server takes requests: app.run is running, or the app object was imported
\* and is driven directly.
Accepting == pc[MainThread] \in {"app_run", "imported"}

ServerInit ==
    /\ model_pipeline = None
    /\ fileExists \in BOOLEAN
    /\ launch \in {"main", "import"}
    /\ pc = [t \in Threads |->
               IF t = MainThread
               THEN (IF launch = "main" THEN "run_api" ELSE "imported")
               ELSE "idle"]
    /\ req = [t \in Handlers |-> NoReq]
    /\ raw_text = [t \in Handlers |-> <<>>]
    /\ cleaned_text = [t \in Handlers |-> <<>>]
    /\ loaded = [t \in Threads |-> None]
    /\ resp = [t \in Handlers |-> NoResp]
    /\ calls = [t \in Threads |-> NoCalls]
    /\ joblibLoads = 0
    /\ handleStores = 0
    /\ firstReturned = None
    /\ lateCall = [t \in Threads |-> FALSE]

PureOff ==
    /\ ct_pc = "off"
    /\ ct_input = <<>>
    /\ ct_url = <<>>
    /\ ct_once = <<>>
    /\ ct_twice = <<>>
    /\ lb_code = 0
    /\ lb_label = ""

Init == ServerInit /\ PureOff

(***************************************************************************)
(* The handlers.                                                           *)
(***************************************************************************)
Called(t, what) == [calls EXCEPT ![t][what] = @ + 1]

\* An exception leaves the thread's code: a handler's request is answered 500 by
\* Flask, run_api ends with the traceback.
Raise(t, exc) ==
    IF t = MainThread
    THEN /\ pc' = [pc EXCEPT ![t] = "raised"]
         /\ UNCHANGED <<resp, raw_text, cleaned_text>>
    ELSE /\ pc' = [pc EXCEPT ![t] = "done"]
         /\ resp' = [resp EXCEPT ![t] = FaultResponse(exc)]
         /\ raw_text' = [raw_text EXCEPT ![t] = <<>>]
         /\ cleaned_text' = [cleaned_text EXCEPT ![t] = <<>>]

\* GET /health
Health(t) ==
    /\ Accepting
    /\ pc[t] = "idle"
    /\ req' = [req EXCEPT ![t] = [route |-> "health", body |-> NoBody]]
    /\ resp' = [resp EXCEPT ![t] = HealthResponse]
    /\ pc' = [pc EXCEPT ![t] = "done"]
    /\ UNCHANGED <<model_pipeline, fileExists, launch, raw_text, cleaned_text, loaded,
                   calls, joblibLoads, handleStores, firstReturned, lateCall>>
    /\ UNCHANGED pureVars

\* predict, lines 146-156: what the validation of the body answers; NoResp when
\* the body passes and payload["text"] can be read.
Validate(b) ==
    IF ~JsonParses(b)
    THEN ErrorResponse("Request body must be valid JSON")
    ELSE IF ~Truthy(b)
    THEN ErrorResponse("JSON body must contain 'text' field")
    ELSE IF ContainsText(b) = "TypeError"
    THEN FaultResponse("TypeError")
    ELSE IF ContainsText(b) = "no"
    THEN ErrorResponse("JSON body must contain 'text' field")
    ELSE IF ~Subscriptable(b)
    THEN FaultResponse("TypeError")
    ELSE NoResp

\* load_model, line 101:  if model_pipeline is None  (where the call goes on)
LoadModelEntry == IF model_pipeline = None THEN "lm_exists" ELSE "lm_return"

\* POST /predict, lines 146-162, and load_model's line 101: parse and validate the
\* body, clean the text, call load_model, which tests the handle.
PredictBegin(t, b) ==
    /\ Accepting
    /\ pc[t] = "idle"
    /\ req' = [req EXCEPT ![t] = [route |-> "predict", body |-> b]]
    /\ IF Validate(b) # NoResp
       THEN /\ resp' = [resp EXCEPT ![t] = Validate(b)]
            /\ pc' = [pc EXCEPT ![t] = "done"]
            /\ UNCHANGED <<raw_text, cleaned_text, calls, lateCall>>
       ELSE /\ raw_text' = [raw_text EXCEPT ![t] = PyStr(b.text)]
            /\ cleaned_text' = [cleaned_text EXCEPT ![t] = clean_tweet(JStr(PyStr(b.text)))]
            /\ calls' = [calls EXCEPT ![t].clean = @ + 1, ![t].load_model = @ + 1]
            /\ lateCall' = [lateCall EXCEPT ![t] = (firstReturned # None)]
            /\ pc' = [pc EXCEPT ![t] = LoadModelEntry]
            /\ resp' = resp
    /\ UNCHANGED <<model_pipeline, fileExists, launch, loaded, joblibLoads,
                   handleStores, firstReturned>>
    /\ UNCHANGED pureVars

\* load_model, lines 102-106:  if not os.path.exists(MODEL_PATH): raise FileNotFoundError
LoadModelExists(t) ==
    /\ pc[t] = "lm_exists"
    /\ calls' = Called(t, "exists")
    /\ IF fileExists
       THEN /\ pc' = [pc EXCEPT ![t] = "lm_load"]
            /\ UNCHANGED <<resp, raw_text, cleaned_text>>
       ELSE Raise(t, "FileNotFoundError")
    /\ UNCHANGED <<model_pipeline, fileExists, launch, req, loaded, joblibLoads,
                   handleStores, firstReturned, lateCall>>
    /\ UNCHANGED pureVars

\* load_model, line 107, right-hand side:  joblib.load(MODEL_PATH).  Every call
\* that finds the file returns a new object; one that does not raises.
LoadModelDeserialize(t) ==
    /\ pc[t] = "lm_load"
    /\ calls' = Called(t, "joblib")
    /\ IF fileExists
       THEN /\ joblibLoads' = joblibLoads + 1
            /\ loaded' = [loaded EXCEPT ![t] = joblibLoads + 1]
            /\ pc' = [pc EXCEPT ![t] = "lm_store"]
            /\ UNCHANGED <<resp, raw_text, cleaned_text>>
       ELSE /\ Raise(t, "FileNotFoundError")
            /\ UNCHANGED <<joblibLoads, loaded>>
    /\ UNCHANGED <<model_pipeline, fileExists, launch, req, handleStores,
                   firstReturned, lateCall>>
    /\ UNCHANGED pureVars

\* load_model, line 107, the assignment:  model_pipeline = <the loaded object>
LoadModelStore(t) ==
    /\ pc[t] = "lm_store"
    /\ model_pipeline' = loaded[t]
    /\ handleStores' = handleStores + 1
    /\ loaded' = [loaded EXCEPT ![t] = None]
    /\ pc' = [pc EXCEPT ![t] = "lm_return"]
    /\ UNCHANGED <<fileExists, launch, req, raw_text, cleaned_text, resp, calls,
                   joblibLoads, firstReturned, lateCall>>
    /\ UNCHANGED pureVars

\* load_model, line 109:  return model_pipeline  (what the history records of it)
Returned == IF firstReturned = None THEN model_pipeline ELSE firstReturned

ClassifierInput_Raw(t) == raw_text[t]

\* predict's argument of model.predict([...]), line 165
ClassifierInput(t) == cleaned_text[t]

\* load_model's line 109 and predict, lines 165-178: load_model returns the handle,
\* predict classifies with it, maps the label and answers.  The classifier is
\* opaque: it returns some class code.
PredictFinish(t, c) ==
    /\ t \in Handlers
    /\ pc[t] = "lm_return"
    /\ firstReturned' = Returned
    /\ calls' = [calls EXCEPT ![t].predict = @ + 1, ![t].predictArg = ClassifierInput(t)]
    /\ resp' = [resp EXCEPT ![t] =
                  Response("prediction", 200, "", raw_text[t], cleaned_text[t], c, LabelOf(c))]
    /\ pc' = [pc EXCEPT ![t] = "done"]
    /\ raw_text' = [raw_text EXCEPT ![t] = <<>>]
    /\ cleaned_text' = [cleaned_text EXCEPT ![t] = <<>>]
    /\ lateCall' = [lateCall EXCEPT ![t] = FALSE]
    /\ UNCHANGED <<model_pipeline, fileExists, launch, req, loaded, joblibLoads,
                   handleStores>>
    /\ UNCHANGED pureVars

\* The response is sent; the thread is free for the next request.
Respond(t) ==
    /\ pc[t] = "done"
    /\ pc' = [pc EXCEPT ![t] = "idle"]
    /\ req' = [req EXCEPT ![t] = NoReq]
    /\ resp' = [resp EXCEPT ![t] = NoResp]
    /\ calls' = [calls EXCEPT ![t] = NoCalls]
    /\ UNCHANGED <<model_pipeline, fileExists, launch, raw_text, cleaned_text, loaded,
                   joblibLoads, handleStores, firstReturned, lateCall>>
    /\ UNCHANGED pureVars

RunApiCall_Skipped == "lm_return"

\* run_api, line 200:  load_model()
RunApiCall == LoadModelEntry

\* run_api, lines 193-200: fail fast if the file is missing, else call load_model.
RunApiStart ==
    /\ pc[MainThread] = "run_api"
    /\ IF fileExists
       THEN /\ pc' = [pc EXCEPT ![MainThread] = RunApiCall]
            /\ calls' = [calls EXCEPT ![MainThread].exists = @ + 1,
                                      ![MainThread].load_model = @ + 1]
       ELSE /\ pc' = [pc EXCEPT ![MainThread] = "raised"]
            /\ calls' = Called(MainThread, "exists")
    /\ UNCHANGED <<model_pipeline, fileExists, launch, req, raw_text, cleaned_text,
                   loaded, resp, joblibLoads, handleStores, firstReturned, lateCall>>
    /\ UNCHANGED pureVars

\* load_model's line 109 and run_api, line 201: load_model returns, app.run starts
\* the server.
RunApiServe ==
    /\ pc[MainThread] = "lm_return"
    /\ firstReturned' = Returned
    /\ pc' = [pc EXCEPT ![MainThread] = "app_run"]
    /\ UNCHANGED <<model_pipeline, fileExists, launch, req, raw_text, cleaned_text,
                   loaded, resp, calls, joblibLoads, handleStores, lateCall>>
    /\ UNCHANGED pureVars

\* The environment removes the artifact file.
RemoveArtifact ==
    /\ fileExists
    /\ fileExists' = FALSE
    /\ UNCHANGED <<model_pipeline, launch, pc, req, raw_text, cleaned_text, loaded,
                   resp, calls, joblibLoads, handleStores, firstReturned, lateCall>>
    /\ UNCHANGED pureVars

Next ==
    \/ \E t \in Handlers : Health(t)
    \/ \E t \in Handlers : \E b \in Bodies : PredictBegin(t, b)
    \/ \E t \in Threads : LoadModelExists(t)
    \/ \E t \in Threads : LoadModelDeserialize(t)
    \/ \E t \in Threads : LoadModelStore(t)
    \/ \E t \in Handlers : \E c \in ClassCodes : PredictFinish(t, c)
    \/ \E t \in Handlers : Respond(t)
    \/ RunApiStart
    \/ RunApiServe
    \/ RemoveArtifact

Spec == Init /\ [][Next]_vars

(***************************************************************************)
(* The pure functions, run on their own: clean_tweet on every input text,  *)
(* then again on its own output; the label mapper on every class code.     *)
(***************************************************************************)
ServerOff ==
    /\ ServerInit
    /\ fileExists
    /\ launch = "import"

InitPure ==
    /\ ServerOff
    /\ ct_url = <<>>
    /\ ct_once = <<>>
    /\ ct_twice = <<>>
    /\ lb_label = ""
    /\ \/ /\ ct_pc = "text"
          /\ ct_input \in Inputs
          /\ lb_code = 0
       \/ /\ ct_pc = "code"
          /\ ct_input = <<>>
          /\ lb_code \in LabelCodes

\* clean_tweet(text); ct_url keeps the value of text after line 70.
CleanTweet ==
    /\ ct_pc = "text"
    /\ ct_url' = SubUrls(ct_input)
    /\ ct_once' = clean_tweet(JStr(ct_input))
    /\ ct_pc' = "cleaned"
    /\ UNCHANGED <<ct_input, ct_twice, lb_code, lb_label>>
    /\ UNCHANGED serverVars

\* clean_tweet on the text clean_tweet returned.
CleanTweetAgain ==
    /\ ct_pc = "cleaned"
    /\ ct_twice' = clean_tweet(JStr(ct_once))
    /\ ct_pc' = "recleaned"
    /\ UNCHANGED <<ct_input, ct_url, ct_once, lb_code, lb_label>>
    /\ UNCHANGED serverVars

\* label = LABEL_MAP.get(pred_int, "unknown")
MapLabel ==
    /\ ct_pc = "code"
    /\ lb_label' = LabelOf(lb_code)
    /\ ct_pc' = "labelled"
    /\ UNCHANGED <<ct_input, ct_url, ct_once, ct_twice, lb_code>>
    /\ UNCHANGED serverVars

NextPure == CleanTweet \/ CleanTweetAgain \/ MapLabel

SpecPure == InitPure /\ [][NextPure]_vars

(***************************************************************************)
(* What the properties below speak of.                                     *)
(***************************************************************************)
\* A well-formed predict request: a JSON object with a "text" field.
WellFormed(b) == b.kind = "object" /\ "text" \in b.keys

\* Handler t has answered a request for the given route.
Answered(t, route) == pc[t] = "done" /\ req[t].route = route

\* The maximal runs of whitespace and of non-whitespace characters of s, in order.
RECURSIVE Segments(_)
Segments(s) ==
    IF s = <<>> THEN <<>>
    ELSE LET sp == IsSpace(s[1])
             n  == CHOOSE k \in 1..Len(s) :
                      /\ \A j \in 1..k : IsSpace(s[j]) = sp
                      /\ k = Len(s) \/ IsSpace(s[k + 1]) # sp
         IN  <<SubSeq(s, 1, n)>> \o Segments(SubSeq(s, n + 1, Len(s)))

\* Token T has, at position k, "http" or "www." with at least one character after it.
UrlStartsAt(T, k) ==
    /\ k + 4 <= Len(T)
    /\ SubSeq(T, k, k + 3) \in { <<"h","t","t","p">>, <<"w","w","w",".">> }

\* A token as the URL step is said to leave it: gone (one space) when the token
\* begins with "http" or "www.", untouched otherwise.
TokenByPrefix(T) == IF UrlStartsAt(T, 1) THEN <<" ">> ELSE T

\* A token cut at the first place where "http" or "www." starts inside it: what is
\* before that place stays, the rest becomes one space.
TokenByOccurrence(T) ==
    IF \E k \in 1..Len(T) : UrlStartsAt(T, k)
    THEN LET k == CHOOSE i \in 1..Len(T) :
                     UrlStartsAt(T, i) /\ \A j \in 1..(i - 1) : ~UrlStartsAt(T, j)
         IN  SubSeq(T, 1, k - 1) \o <<" ">>
    ELSE T

\* The text with each token replaced as Tok says, the whitespace kept.
TokenWise(s, Tok(_)) ==
    LET segs == Segments(s)
    IN  Flatten([i \in DOMAIN segs |->
                   IF IsSpace(segs[i][1]) THEN segs[i] ELSE Tok(segs[i])])

(***************************************************************************)
(* C1.  Single load: however the load_model calls of concurrent predict    *)
(* requests interleave, joblib.load runs at most once, the handle is       *)
(* assigned at most once, and once a prediction was served with the file   *)
(* still in place joblib.load has run exactly once.                        *)
(***************************************************************************)
C1_SingleLoad ==
    /\ joblibLoads <= 1
    /\ handleStores <= 1
    /\ (fileExists /\ \E t \in Handlers : resp[t].kind = "prediction") => joblibLoads = 1

(***************************************************************************)
(* C2.  The normalizer is idempotent: cleaning a cleaned text changes      *)
(* nothing.                                                                *)
(***************************************************************************)
C2_Idempotent == ct_pc = "recleaned" => ct_twice = ct_once

(***************************************************************************)
(* C3.  A predict request whose body is not JSON, or is a JSON value       *)
(* without a "text" field, is answered 400 with an "error" key, and has    *)
(* called neither the normalizer, nor load_model, nor the classifier.      *)
(***************************************************************************)
C3_ClientErrors ==
    \A t \in Handlers :
        (Answered(t, "predict") /\ ~WellFormed(req[t].body)) =>
            /\ resp[t].status = 400
            /\ resp[t].kind = "error"
            /\ calls[t] = NoCalls

(***************************************************************************)
(* C4.  Model unavailable: a predict request that finds the artifact file  *)
(* absent when it loads (the handle was unloaded at line 101) ends in a    *)
(* 500, without a call of the classifier, after one call of load_model and *)
(* no second look at the file system; the step leaves the handle and the   *)
(* load count as they were.                                                *)
(***************************************************************************)
C4_ModelUnavailable ==
    [][ \A t \in Handlers :
          (pc[t] \in {"lm_exists", "lm_load"} /\ ~fileExists /\ pc'[t] # pc[t]) =>
              /\ pc'[t] = "done"
              /\ resp'[t].status = 500
              /\ resp'[t].kind = "fault"
              /\ calls'[t].predict = 0
              /\ calls'[t].load_model = 1
              /\ calls'[t].exists = 1
              /\ calls'[t].joblib = (IF pc[t] = "lm_load" THEN 1 ELSE 0)
              /\ model_pipeline' = model_pipeline
              /\ joblibLoads' = joblibLoads
      ]_vars

C4_Witness ==
    \E t \in Handlers :
        /\ Answered(t, "predict")
        /\ WellFormed(req[t].body)
        /\ resp[t].status = 500
        /\ calls[t].joblib = 0
        /\ model_pipeline = None
        /\ ~fileExists

(***************************************************************************)
(* C5.  Health: whatever the state of the model, a GET /health is answered *)
(* 200 {"status": "ok"}; handling it changes neither the handle nor the    *)
(* file, and calls nothing that loads.                                     *)
(***************************************************************************)
C5_Health ==
    /\ [](\A t \in Handlers :
            /\ (Accepting /\ pc[t] = "idle") => ENABLED Health(t)
            /\ Answered(t, "health") =>
                  /\ resp[t].status = 200
                  /\ resp[t].kind = "health"
                  /\ resp[t].error = "ok"
                  /\ calls[t] = NoCalls)
    /\ [][ \A t \in Handlers :
          (req[t].route = "none" /\ req'[t].route = "health") =>
              /\ pc'[t] = "done"
              /\ resp'[t].status = 200
              /\ resp'[t].kind = "health"
              /\ resp'[t].error = "ok"
              /\ calls'[t] = NoCalls
              /\ model_pipeline' = model_pipeline
              /\ joblibLoads' = joblibLoads
              /\ handleStores' = handleStores
              /\ loaded' = loaded
         ]_vars

\* A health check answered while another thread is in the middle of the load and
\* the handle is still unloaded.
C5_Witness ==
    \E t \in Handlers :
        /\ Answered(t, "health")
        /\ resp[t].status = 200
        /\ model_pipeline = None
        /\ \E u \in Handlers : pc[u] = "lm_store"

(***************************************************************************)
(* C6.  Load once and reuse: a load_model call that begins after a first   *)
(* call has returned neither checks the file nor deserializes, and returns *)
(* the object that first call returned, also when the file is gone.        *)
(***************************************************************************)
C6_LoadOnceReuse ==
    \A t \in Handlers :
        lateCall[t] =>
            /\ pc[t] = "lm_return"
            /\ calls[t].exists = 0
            /\ calls[t].joblib = 0
            /\ model_pipeline = firstReturned

(***************************************************************************)
(* C7.  Startup gating: in a process started through run_api, app.run is   *)
(* reached only with the handle loaded and no request is handled before;   *)
(* when run_api finds the file missing it raises, without a call of        *)
(* load_model, and run_api has raised only when the file was missing.      *)
(***************************************************************************)
C7_StartupGating ==
    /\ [](launch = "main" =>
            /\ pc[MainThread] = "app_run" => model_pipeline # None
            /\ \A t \in Handlers :
                 pc[t] # "idle" => (pc[MainThread] = "app_run" /\ model_pipeline # None)
            /\ pc[MainThread] = "raised" => (~fileExists /\ model_pipeline = None))
    /\ [][ (pc[MainThread] = "run_api" /\ ~fileExists /\ pc'[MainThread] # "run_api") =>
              /\ pc'[MainThread] = "raised"
              /\ calls'[MainThread].load_model = 0
              /\ model_pipeline' = None
         ]_vars

C7_Witness ==
    /\ launch = "main"
    /\ \E t \in Handlers : Answered(t, "predict") /\ resp[t].kind = "prediction"

(***************************************************************************)
(* C8.  Prediction orchestration: a well-formed predict request, unless it *)
(* failed with the artifact file gone, is answered 200 with the caller's   *)
(* text (str() of the value; the value itself when it is a string), its    *)
(* cleaned form, the classifier's class code and that code's label; the    *)
(* classifier was called once, on the cleaned text.                        *)
(***************************************************************************)
C8_Orchestration ==
    \A t \in Handlers :
        (Answered(t, "predict") /\ WellFormed(req[t].body)
            /\ (fileExists \/ resp[t].kind # "fault")) =>
            /\ resp[t].status = 200
            /\ resp[t].kind = "prediction"
            /\ resp[t].input_text = PyStr(req[t].body.text)
            /\ req[t].body.text.kind = "string" => resp[t].input_text = req[t].body.text.chars
            /\ resp[t].cleaned_text = clean_tweet(JStr(resp[t].input_text))
            /\ resp[t].prediction \in ClassCodes
            /\ resp[t].label = LabelOf(resp[t].prediction)
            /\ calls[t].clean = 1
            /\ calls[t].load_model = 1
            /\ calls[t].predict = 1
            /\ calls[t].predictArg = resp[t].cleaned_text

\* A prediction served for a text that cleaning changes.
C8_Witness ==
    \E t \in Handlers :
        /\ Answered(t, "predict")
        /\ resp[t].kind = "prediction"
        /\ resp[t].cleaned_text # resp[t].input_text
        /\ resp[t].label = "positive"

(***************************************************************************)
(* C9.  The label mapping is total: 0 gives "negative", 4 gives            *)
(* "positive", every other class code gives "unknown".                     *)
(***************************************************************************)
C9_LabelTotal ==
    ct_pc = "labelled" =>
        /\ lb_label \in {"negative", "positive", "unknown"}
        /\ lb_label = "negative" <=> lb_code = 0
        /\ lb_label = "positive" <=> lb_code = 4

C9_Witness == ct_pc = "labelled" /\ lb_code = 2 /\ lb_label = "unknown"

(***************************************************************************)
(* C10.  Scope of the URL step.                                            *)
(* As claimed: the step removes the tokens that begin with "http" or       *)
(* "www.", and every other token keeps all its characters.                 *)
(***************************************************************************)
C10_TokenScope ==
    ct_pc \in {"cleaned", "recleaned"} => ct_url = TokenWise(ct_input, TokenByPrefix)

(***************************************************************************)
(* C10, amended: in each token the step replaces by one space the stretch  *)
(* from the first "http" or "www." that has a character after it to the    *)
(* end of the token, wherever in the token that is; what precedes it       *)
(* stays, and a token without such an occurrence is untouched.             *)
(***************************************************************************)
C10_UrlStep ==
    ct_pc \in {"cleaned", "recleaned"} => ct_url = TokenWise(ct_input, TokenByOccurrence)

\* A token that does not begin with a URL prefix and still loses characters.
C10_Witness ==
    /\ ct_pc = "cleaned"
    /\ ct_input = <<"s","h","t","t","p","s">>
    /\ ct_url = <<"s"," ">>

====
